---------------------------- MODULE Spec2Model ----------------------------
(***************************************************************************)
(* State-machine model of geospatial_optimization:                         *)
(*   - plan_sensor_routes        (mobile_optimization.py)  SpecRoutes      *)
(*   - select_scan_positions     (mobile_optimization.py)  SpecScan        *)
(*   - optimize_sensor_placement (optimization.py)         SpecPlace       *)
(*   - get_grid_points_in_polygon_km (helpers.py)          SpecGrid        *)
(*   - calculate_coverage_info   (optimization.py)         SpecCoverage    *)
(* The external MILP solver (pulp / CBC) is the environment: it answers a  *)
(* model with a status and variable values; when the status is not         *)
(* optimal the values it leaves are unspecified.  Geometry (haversine      *)
(* distances, segment containment, footprint containment) enters as input  *)
(* tables drawn from small sets.                                           *)
(***************************************************************************)
EXTENDS Integers, Sequences, FiniteSets, TLC

\* ---------------------------------------------------------------- bounds
MaxDepots == 2
MaxScan == 3
MaxDist == 1
MaxFreeGrid == 2
MaxGrid == 5
MaxReach == 2
MaxLocations == 2
MaxConfigs == 2
MaxSensors == 2
MaxExtent == 3
MaxPlaced == 2
MaxSamples == 3
MaxArea == 2

VARIABLES
    \* plan_sensor_routes
    nDepots,      \* len(depots)
    nScan,        \* len(scan_points)
    distances,    \* distances[s][d] = _haversine_dist(scan s, depot d)
    clusters,     \* clusters[d] = scan points assigned to depot d, in input order
    routes,       \* the local list `routes`
    depotIdx,     \* position of the `for depot, assigned in zip(...)` loop
    arcs,         \* permitted arcs of the cluster being solved
    status,       \* pulp.LpStatus[result_status] of the last solve
    succ,         \* successor dict of the cluster being extracted
    current,      \* walk position
    tour,         \* tour under construction
    segInside,    \* point pairs whose segment the containment test accepted
    rpc,          \* control state of plan_sensor_routes
    result,       \* value returned to the caller ("none" until it returns)
    \* select_scan_positions, called twice on the same grid
    gridSize,     \* len(locations) = len(coverage_points)
    footprint,    \* footprint[idx] = points that candidate_polys[idx] contains
    requirement,  \* coverage_requirement of call 1 and call 2, in percent
    callNo,       \* the call in progress
    uncovered,    \* the set `uncovered`
    selected,     \* the list `selected`, as candidate indices
    returned,     \* the lists returned by the finished calls
    spc,          \* control state of select_scan_positions
    \* optimize_sensor_placement
    numLocations, \* num_locations
    numConfigs,   \* num_configs
    covers,       \* covers[<<l, j>>] = samples i with covers[i, l, j] = 1
    maxSensors,   \* max_sensors
    covReq,       \* coverage_requirement, in percent
    overlap,      \* encourage_overlapping, in halves
    probStatus,   \* prob.status after prob.solve
    xValue,       \* pairs <<l, j>> with pulp.value(x[l][j]) == 1
    placement,    \* the returned pair <<status, placed_sensors_info>>
    ppc,          \* control state of optimize_sensor_placement
    \* get_grid_points_in_polygon_km, coordinates relative to
    \* (min_lon, min_lat) of polygon.bounds
    polygonKind,  \* shape of `polygon`
    maxLon,       \* max_lon - min_lon
    maxLat,       \* max_lat - min_lat
    latStep,      \* lat_step
    lonStep,      \* lonStep[row] = lon_step of the row-th latitude row
    currentLat,   \* current_lat
    currentLon,   \* current_lon
    gridPoints,   \* the list grid_points, as pairs <<lon, lat>>
    gpc,          \* control state of get_grid_points_in_polygon_km
    \* calculate_coverage_info
    nPlaced,      \* len(placed_sensors)
    nSamples,     \* len(locations)
    inFootprint,  \* inFootprint[k] = samples that placed_polygons[k] contains
    areaRegion,   \* operational_area.area
    ptIdx,        \* position of the `for pt in locations` loop
    coveredCount, \* covered_count
    geomCalls,    \* geometry operations invoked so far
    info,         \* the returned dictionary ("none" until it returns)
    cpc           \* control state of calculate_coverage_info

routeVars == <<nDepots, nScan, distances, clusters, routes, depotIdx, arcs,
               status, succ, current, tour, segInside, rpc, result>>

scanVars == <<gridSize, footprint, requirement, callNo, uncovered, selected,
              returned, spc>>

placeVars == <<numLocations, numConfigs, covers, maxSensors, covReq, overlap,
               probStatus, xValue, placement, ppc>>

gridVars == <<polygonKind, maxLon, maxLat, latStep, lonStep, currentLat,
              currentLon, gridPoints, gpc>>

coverageVars == <<nPlaced, nSamples, inFootprint, areaRegion, ptIdx,
                  coveredCount, geomCalls, info, cpc>>

vars == <<routeVars, scanVars, placeVars, gridVars, coverageVars>>

\* what each function leaves alone
notRouteVars == <<scanVars, placeVars, gridVars, coverageVars>>

notScanVars == <<routeVars, placeVars, gridVars, coverageVars>>

notPlaceVars == <<routeVars, scanVars, gridVars, coverageVars>>

notGridVars == <<routeVars, scanVars, placeVars, coverageVars>>

notCoverageVars == <<routeVars, scanVars, placeVars, gridVars>>

\* ------------------------------------------------------------- helpers
Depot(d) == <<"depot", d>>
ScanPt(s) == <<"scan", s>>

Max(S) == CHOOSE m \in S : \A k \in S : k <= m

Min(S) == CHOOSE m \in S : \A k \in S : m <= k

\* variant: index of the last occurrence of the minimum
ArgminLast(seq) == Max({i \in 1..Len(seq) : \A k \in 1..Len(seq) : seq[i] <= seq[k]})

\* np.argmin: index of the first occurrence of the minimum
Argmin(seq) == Min({i \in 1..Len(seq) : \A k \in 1..Len(seq) : seq[i] <= seq[k]})

\* the loop `for sp in scan_points: clusters[argmin(distances)].append(sp)`
RECURSIVE AssignClusters(_)
AssignClusters(k) ==
    IF k = 0 THEN [d \in 1..nDepots |-> <<>>]
    ELSE LET c == AssignClusters(k - 1)
         IN  [c EXCEPT ![Argmin(distances[k])] = Append(@, k)]

\* pts = [depot] + [s["location"] for s in assigned]; node 0 is the depot
Pts(d) == [i \in 0..Len(clusters[d]) |->
              IF i = 0 THEN Depot(d) ELSE ScanPt(clusters[d][i])]

NodeCount(d) == Len(clusters[d]) + 1

\* outcomes of operational_area.contains(LineString([pts[i], pts[j]])): the
\* segment is the same point set in both directions, so the test is symmetric
SegmentTests(n) == SUBSET {p \in SUBSET (0..(n - 1)) : Cardinality(p) = 2}

\* the accepted segments of cluster d, as pairs of points
Tested(d, inside) == {{Pts(d)[i] : i \in p} : p \in inside}

\* variant: every arc is kept, whatever the containment test says
ArcsUnrestricted(n, inside) ==
    {a \in (0..(n - 1)) \X (0..(n - 1)) : a[1] # a[2]}

\* the double loop building `arcs`
ArcsOf(n, inside) ==
    {a \in (0..(n - 1)) \X (0..(n - 1)) : a[1] # a[2] /\ {a[1], a[2]} \in inside}

\* degree constraints: one incoming and one outgoing active arc per scan
\* point, and one of each for the depot
DegreeOk(n, A, x) ==
    /\ \A k \in 1..(n - 1) :
          /\ Cardinality({a \in x : a[2] = k}) = 1
          /\ Cardinality({a \in x : a[1] = k}) = 1
    /\ Cardinality({a \in x : a[1] = 0}) = 1
    /\ Cardinality({a \in x : a[2] = 0}) = 1

\* Miller-Tucker-Zemlin rows for a given u
MTZRows(n, A, x, u) ==
    \A i \in 1..(n - 1) : \A j \in 1..(n - 1) :
        (i # j /\ <<i, j>> \in A) =>
            u[i] - u[j] + (n - 1) * (IF <<i, j>> \in x THEN 1 ELSE 0) <= n - 2

\* variant: no sub-tour elimination
MTZNone(n, A, x) == TRUE

\* some integer u[i] in [1, n-1] satisfies every MTZ row
MTZOk(n, A, x) ==
    \E u \in [1..(n - 1) -> 1..(n - 1)] : MTZRows(n, A, x, u)

\* Every x meeting the out-degree rows activates exactly one arc per tail
\* node, so the candidates are the graphs of functions on the nodes.
ArcCandidates(n, A) ==
    {x \in {{<<i, f[i]>> : i \in 0..(n - 1)} : f \in [0..(n - 1) -> 0..(n - 1)]} :
        x \subseteq A}

\* assignments of the binary x the solver can return with status Optimal
FeasibleX(n, A) ==
    {x \in ArcCandidates(n, A) : DegreeOk(n, A, x) /\ MTZOk(n, A, x)}

\* statuses that are not Optimal: Infeasible when no assignment exists,
\* Not Solved when the time limit ends the search
FailureStatuses(n, A) ==
    {"Not Solved"} \cup (IF FeasibleX(n, A) = {} THEN {"Infeasible"} ELSE {})

\* succ = {i: j for i, j in arcs if value(x[i, j]) == 1}; a later arc of the
\* same tail overwrites an earlier one
SuccOf(x) == [i \in {a[1] : a \in x} |-> Max({a[2] : a \in {b \in x : b[1] = i}})]

\* get_grid_points_in_polygon_km is not running
GridIdle ==
    /\ polygonKind = "none"
    /\ maxLon = 0
    /\ maxLat = 0
    /\ latStep = 0
    /\ lonStep = <<>>
    /\ currentLat = 0
    /\ currentLon = 0
    /\ gridPoints = <<>>
    /\ gpc = "idle"

\* calculate_coverage_info is not running
CoverageIdle ==
    /\ nPlaced = 0
    /\ nSamples = 0
    /\ inFootprint = <<>>
    /\ areaRegion = 0
    /\ ptIdx = 0
    /\ coveredCount = 0
    /\ geomCalls = {}
    /\ info = "none"
    /\ cpc = "idle"

\* select_scan_positions is not running
ScanIdle ==
    /\ gridSize = 0
    /\ footprint = <<>>
    /\ requirement = <<0, 0>>
    /\ callNo = 0
    /\ uncovered = {}
    /\ selected = <<>>
    /\ returned = <<>>
    /\ spc = "idle"

\* optimize_sensor_placement is not running
PlaceIdle ==
    /\ numLocations = 0
    /\ numConfigs = 0
    /\ covers = <<>>
    /\ maxSensors = 0
    /\ covReq = 0
    /\ overlap = 0
    /\ probStatus = 0
    /\ xValue = {}
    /\ placement = "none"
    /\ ppc = "idle"

\* plan_sensor_routes is not running
RoutesIdle ==
    /\ nDepots = 0
    /\ nScan = 0
    /\ distances = <<>>
    /\ clusters = <<>>
    /\ routes = <<>>
    /\ depotIdx = 0
    /\ arcs = {}
    /\ status = "none"
    /\ succ = <<>>
    /\ current = 0
    /\ tour = <<>>
    /\ segInside = {}
    /\ rpc = "idle"
    /\ result = "none"

\* ------------------------------------------------- plan_sensor_routes
RoutesInputs ==
    /\ nDepots \in 0..MaxDepots
    /\ nScan \in 0..MaxScan
    /\ distances \in [1..nScan -> [1..nDepots -> 0..MaxDist]]

InitRoutes ==
    /\ RoutesInputs
    /\ clusters = <<>>
    /\ routes = <<>>
    /\ depotIdx = 1
    /\ arcs = {}
    /\ status = "none"
    /\ succ = <<>>
    /\ current = 0
    /\ tour = <<>>
    /\ segInside = {}
    /\ rpc = "start"
    /\ result = "none"
    /\ ScanIdle
    /\ PlaceIdle
    /\ GridIdle
    /\ CoverageIdle

\* lines 99-102, every scan point has a nearest depot
Assign ==
    /\ rpc = "start"
    /\ (nScan = 0 \/ nDepots > 0)
    /\ clusters' = AssignClusters(nScan)
    /\ rpc' = "cluster"
    /\ UNCHANGED <<nDepots, nScan, distances, routes, depotIdx, arcs, status,
                   succ, current, tour, segInside, result>>
    /\ UNCHANGED notRouteVars

\* line 102 with no depot: np.argmin of an empty sequence raises ValueError
AssignNoDepot ==
    /\ rpc = "start"
    /\ nScan > 0
    /\ nDepots = 0
    /\ rpc' = "raised"
    /\ UNCHANGED <<nDepots, nScan, distances, clusters, routes, depotIdx, arcs,
                   status, succ, current, tour, segInside, result>>
    /\ UNCHANGED notRouteVars

\* lines 109-111
TrivialRoute ==
    /\ rpc = "cluster"
    /\ depotIdx <= nDepots
    /\ NodeCount(depotIdx) = 1
    /\ routes' = Append(routes, <<Depot(depotIdx), Depot(depotIdx)>>)
    /\ depotIdx' = depotIdx + 1
    /\ UNCHANGED <<nDepots, nScan, distances, clusters, arcs, status, succ,
                   current, tour, segInside, rpc, result>>
    /\ UNCHANGED notRouteVars

\* variant: the routes built so far are handed back
RoutingFailurePartial ==
    /\ rpc' = "returned"
    /\ result' = routes

\* line 148: the exception leaves the function, the local routes are lost
RoutingFailure ==
    /\ rpc' = "raised"
    /\ result' = result

\* lines 113-148, the solver does not report Optimal
SolveRaise ==
    /\ rpc = "cluster"
    /\ depotIdx <= nDepots
    /\ NodeCount(depotIdx) > 1
    /\ \E inside \in SegmentTests(NodeCount(depotIdx)) :
         LET n == NodeCount(depotIdx)
             A == ArcsOf(n, inside)
         IN  \E st \in FailureStatuses(n, A) :
                /\ arcs' = A
                /\ segInside' = segInside \cup Tested(depotIdx, inside)
                /\ status' = st
                /\ st # "Optimal"
    /\ RoutingFailure
    /\ UNCHANGED <<nDepots, nScan, distances, clusters, routes, depotIdx, succ,
                   current, tour>>
    /\ UNCHANGED notRouteVars

\* lines 113-153, the solver reports Optimal
SolveExtract ==
    /\ rpc = "cluster"
    /\ depotIdx <= nDepots
    /\ NodeCount(depotIdx) > 1
    /\ \E inside \in SegmentTests(NodeCount(depotIdx)) :
         LET n == NodeCount(depotIdx)
             A == ArcsOf(n, inside)
         IN  \E x \in FeasibleX(n, A) :
                /\ arcs' = A
                /\ segInside' = segInside \cup Tested(depotIdx, inside)
                /\ status' = "Optimal"
                /\ succ' = SuccOf(x)
    /\ current' = 0
    /\ tour' = <<Depot(depotIdx)>>
    /\ rpc' = "walk"
    /\ UNCHANGED <<nDepots, nScan, distances, clusters, routes, depotIdx, result>>
    /\ UNCHANGED notRouteVars

\* lines 154-160, the successor is not the depot
WalkAdvance ==
    /\ rpc = "walk"
    /\ current \in DOMAIN succ
    /\ succ[current] # 0
    /\ tour' = Append(tour, Pts(depotIdx)[succ[current]])
    /\ current' = succ[current]
    /\ UNCHANGED <<nDepots, nScan, distances, clusters, routes, depotIdx, arcs,
                   status, succ, segInside, rpc, result>>
    /\ UNCHANGED notRouteVars

\* lines 155-161, the successor is the depot
WalkClose ==
    /\ rpc = "walk"
    /\ current \in DOMAIN succ
    /\ succ[current] = 0
    /\ routes' = Append(routes, Append(tour, Depot(depotIdx)))
    /\ depotIdx' = depotIdx + 1
    /\ rpc' = "cluster"
    /\ UNCHANGED <<nDepots, nScan, distances, clusters, arcs, status, succ,
                   current, tour, segInside, result>>
    /\ UNCHANGED notRouteVars

\* line 163
ReturnRoutes ==
    /\ rpc = "cluster"
    /\ depotIdx > nDepots
    /\ result' = routes
    /\ rpc' = "returned"
    /\ UNCHANGED <<nDepots, nScan, distances, clusters, routes, depotIdx, arcs,
                   status, succ, current, tour, segInside>>
    /\ UNCHANGED notRouteVars

NextRoutes ==
    \/ Assign
    \/ AssignNoDepot
    \/ TrivialRoute
    \/ SolveRaise
    \/ SolveExtract
    \/ WalkAdvance
    \/ WalkClose
    \/ ReturnRoutes

SpecRoutes == InitRoutes /\ [][NextRoutes]_vars

\* ---------------------------------------------- select_scan_positions
\* coverage_requirement values, in percent (0.8 is the default)
Requirements == {0, 20, 50, 80, 100}

\* requirement values c for which the double 1 - c lies below the exact
\* difference: 1 - 0.8 evaluates to 0.19999999999999996
RoundsBelow == {80}

\* len(uncovered) / len(coverage_points) > 1 - coverage_requirement in double
\* arithmetic: the exact comparison, except when both sides are equal as
\* rationals, where the rounding of 1 - c decides
FractionExceeds(u, n, c) ==
    IF u * 100 = n * (100 - c) THEN c \in RoundsBelow
    ELSE u * 100 > n * (100 - c)

\* variant: the threshold is coverage_requirement itself
LoopTestInverted(unc, n, c) == unc # {} /\ Cardinality(unc) * 100 > n * c

\* the while condition of line 45
LoopTest(unc, n, c) == unc # {} /\ FractionExceeds(Cardinality(unc), n, c)

\* cover_set of line 49
CoverSet(idx, unc) == {i \in unc : i \in footprint[idx]}

\* the for loop of lines 46-52 from candidate idx on: <<best_idx, best_cover>>
RECURSIVE ScanCandidates(_, _, _, _)
ScanCandidates(idx, bestIdx, bestCover, unc) ==
    IF idx > gridSize THEN <<bestIdx, bestCover>>
    ELSE IF Cardinality(CoverSet(idx, unc)) > Cardinality(bestCover)
         THEN ScanCandidates(idx + 1, idx, CoverSet(idx, unc), unc)
         ELSE ScanCandidates(idx + 1, bestIdx, bestCover, unc)

\* variant: a later candidate replaces the best one on an equal count
RECURSIVE ScanCandidatesLast(_, _, _, _)
ScanCandidatesLast(idx, bestIdx, bestCover, unc) ==
    IF idx > gridSize THEN <<bestIdx, bestCover>>
    ELSE IF Cardinality(CoverSet(idx, unc)) >= Cardinality(bestCover)
         THEN ScanCandidatesLast(idx + 1, idx, CoverSet(idx, unc), unc)
         ELSE ScanCandidatesLast(idx + 1, bestIdx, bestCover, unc)

BestLast(unc) == ScanCandidatesLast(1, 0, {}, unc)

\* best_idx and best_cover after the for loop of lines 46-52
Best(unc) == ScanCandidates(1, 0, {}, unc)

\* variant: the selected samples stay in the uncovered set
RemoveNone(unc, cover) == unc

\* uncovered -= best_cover
RemoveCovered(unc, cover) == unc \ cover

\* resolution_km values (20 is the default) and range_km values
ResolutionsKm == {10, 20}
RangesKm == {15, 25}

\* create_fan_polygon rooted at position apex of a west-east row of grid
\* points, for a full-circle config of range r: where a point at position q
\* of the row lies.  The ring is [apex] + arc_points, so the apex is a vertex
\* of the ring and lies on the boundary of the polygon.
FanLocate(apex, r, q) ==
    IF q = apex THEN "boundary"
    ELSE IF Max({q - apex, apex - q}) < r THEN "interior"
    ELSE "exterior"

\* shapely's poly.contains(point): the point lies in the interior of poly
Contains(where) == where = "interior"

\* candidate_polys on a row of n grid points, each tested against every
\* coverage point
FanFootprints(n) ==
    {[idx \in 1..n |-> {i \in 1..n : Contains(FanLocate(idx * s, r, i * s))}] :
        s \in ResolutionsKm, r \in RangesKm}

\* footprints of arbitrary shape on grids of at most MaxFreeGrid points;
\* a candidate is rooted at its own grid point, which its polygon does not
\* contain
FreeFootprints(n) ==
    IF n <= MaxFreeGrid
    THEN {f \in [1..n -> SUBSET (1..n)] : \A idx \in 1..n : idx \notin f[idx]}
    ELSE {}

\* one sensor_config gives every candidate the same shape: on a row of
\* grid points, the points at the offsets of a fixed pattern
ShiftedFootprints(n) ==
    {[idx \in 1..n |-> {i \in 1..n : (i - idx) \in pattern}] :
        pattern \in SUBSET (((0 - MaxReach)..MaxReach) \ {0})}

ScanInputs ==
    /\ gridSize \in 0..MaxGrid
    /\ footprint \in FreeFootprints(gridSize) \cup ShiftedFootprints(gridSize)
                       \cup FanFootprints(gridSize)
    /\ requirement \in {r \in Requirements \X Requirements : r[1] <= r[2]}

InitScan ==
    /\ ScanInputs
    /\ callNo = 1
    /\ uncovered = 1..gridSize
    /\ selected = <<>>
    /\ returned = <<>>
    /\ spc = "loop"
    /\ RoutesIdle
    /\ PlaceIdle
    /\ GridIdle
    /\ CoverageIdle

\* lines 45-56: the loop test holds and some candidate covers a sample
SelectBest ==
    /\ spc = "loop"
    /\ LoopTest(uncovered, gridSize, requirement[callNo])
    /\ Best(uncovered)[2] # {}
    /\ uncovered' = RemoveCovered(uncovered, Best(uncovered)[2])
    /\ selected' = Append(selected, Best(uncovered)[1])
    /\ UNCHANGED <<gridSize, footprint, requirement, callNo, returned, spc>>
    /\ UNCHANGED notScanVars

\* lines 45-57: the loop test holds, no candidate covers a sample: break
BreakNoCover ==
    /\ spc = "loop"
    /\ LoopTest(uncovered, gridSize, requirement[callNo])
    /\ Best(uncovered)[2] = {}
    /\ returned' = Append(returned, selected)
    /\ spc' = "returned"
    /\ UNCHANGED <<gridSize, footprint, requirement, callNo, uncovered, selected>>
    /\ UNCHANGED notScanVars

\* lines 45, 57: the loop test fails
ReturnSelected ==
    /\ spc = "loop"
    /\ ~LoopTest(uncovered, gridSize, requirement[callNo])
    /\ returned' = Append(returned, selected)
    /\ spc' = "returned"
    /\ UNCHANGED <<gridSize, footprint, requirement, callNo, uncovered, selected>>
    /\ UNCHANGED notScanVars

\* lines 28-43 of the second call, same region, config and resolution
CallAgain ==
    /\ spc = "returned"
    /\ callNo = 1
    /\ callNo' = 2
    /\ uncovered' = 1..gridSize
    /\ selected' = <<>>
    /\ spc' = "loop"
    /\ UNCHANGED <<gridSize, footprint, requirement, returned>>
    /\ UNCHANGED notScanVars

NextScan ==
    \/ SelectBest
    \/ BreakNoCover
    \/ ReturnSelected
    \/ CallAgain

SpecScan == InitScan /\ [][NextScan]_vars

\* the calls are sequential code: an enabled step is taken
SpecScanFair == SpecScan /\ WF_vars(NextScan)

\* ------------------------------------------ optimize_sensor_placement
\* encourage_overlapping values, in halves: 0.0, 0.5, 1.0
OverlapWeights == {0, 1, 2}

Locs == 1..numLocations

Pairs == Locs \X (1..numConfigs)

\* sum over a set of samples of f
RECURSIVE SumOver(_, _)
SumOver(S, f) ==
    IF S = {} THEN 0
    ELSE LET i == CHOOSE k \in S : TRUE IN f[i] + SumOver(S \ {i}, f)

\* lpSum(covers[i, l, j] * x[l][j]) for sample i
CoverCount(i, x) == Cardinality({lj \in x : i \in covers[lj]})

\* value of the objective, times 2
Objective(x, yp) ==
    2 * Cardinality(x) - overlap * SumOver(Locs, [i \in Locs |-> yp[i] - 1])

\* relate overlapping coverage to covered points (times 2)
OverlapTotalRow(y, yp) == 2 * SumOver(Locs, yp) >= overlap * Cardinality(y)

\* y_prime[i] <= 2
OverlapCapRow(yp) == \A i \in Locs : yp[i] <= 2

\* coverage of sample i backs its overlap count (times 2)
OverlapBackedRow(x, yp) == \A i \in Locs : 2 * CoverCount(i, x) >= overlap * yp[i]

\* variant: no limit on the number of sensors
SensorCapNone(x) == TRUE

\* do not exceed max_sensors
SensorCapRow(x) == Cardinality(x) <= maxSensors

\* variant: no coverage requirement
CoverageNone(y) == TRUE

\* meet the minimum coverage requirement (times 100)
CoverageRow(y) == 100 * Cardinality(y) >= covReq * numLocations

\* y[i] is 1 only if sample i is covered by a placed sensor
CoveredBackedRow(x, y) ==
    \A i \in Locs : CoverCount(i, x) >= (IF i \in y THEN 1 ELSE 0)

\* at most one sensor per location
OnePerLocationRow(x) ==
    \A l \in Locs : Cardinality({lj \in x : lj[1] = l}) <= 1

\* y_prime is an integer variable without lower bound; the rows
\* sum(y_prime) >= 0 and y_prime[i] <= 2 keep it at or above -2 (L - 1)
YPrimeValues == (0 - 2 * (numLocations - 1))..2

\* the x that satisfy the rows on x alone
RowsOnX == {x \in SUBSET Pairs : SensorCapRow(x) /\ OnePerLocationRow(x)}

\* the y that satisfy, with x, the rows on x and y
RowsOnY(x) == {y \in SUBSET Locs : CoverageRow(y) /\ CoveredBackedRow(x, y)}

\* the y_prime that satisfy, with x and y, the remaining rows
RowsOnYPrime(x, y) ==
    {yp \in [Locs -> YPrimeValues] :
        OverlapCapRow(yp) /\ OverlapBackedRow(x, yp) /\ OverlapTotalRow(y, yp)}

\* the assignments <<x, y, y_prime>> that satisfy every row
FeasibleAssignments ==
    UNION {UNION {{<<x, y, yp>> : yp \in RowsOnYPrime(x, y)} : y \in RowsOnY(x)} :
              x \in RowsOnX}

\* the x part of the assignments of least objective
OptimalX ==
    LET F == FeasibleAssignments
        least == Min({Objective(a[1], a[3]) : a \in F})
    IN  {a[1] : a \in {b \in F : Objective(b[1], b[3]) = least}}

\* prob.status when the solve is not optimal: infeasible (-1) when no
\* assignment exists, not solved (0) when the time limit ends the search
FailureCodes == {0} \cup (IF FeasibleAssignments = {} THEN {0 - 1} ELSE {})

\* variant: every status reads Optimal
LpStatusOptimal(code) == "Optimal"

\* pulp.LpStatus
LpStatus(code) ==
    CASE code = 1 -> "Optimal"
      [] code = 0 -> "Not Solved"
      [] code = 0 - 1 -> "Infeasible"
      [] code = 0 - 2 -> "Unbounded"
      [] OTHER -> "Undefined"

\* the double loop of lines 106-110 from pair number k on
RECURSIVE PlacedFrom(_, _)
PlacedFrom(k, x) ==
    IF k > numLocations * numConfigs THEN <<>>
    ELSE LET lj == <<((k - 1) \div numConfigs) + 1, ((k - 1) % numConfigs) + 1>>
         IN  (IF lj \in x THEN <<lj>> ELSE <<>>) \o PlacedFrom(k + 1, x)

PlaceInputs ==
    /\ numLocations \in 0..MaxLocations
    /\ numConfigs \in 0..MaxConfigs
    /\ covers \in [Pairs -> SUBSET Locs]
    /\ maxSensors \in 0..MaxSensors
    /\ covReq \in Requirements
    /\ overlap \in OverlapWeights

InitPlace ==
    /\ PlaceInputs
    /\ probStatus = 0
    /\ xValue = {}
    /\ placement = "none"
    /\ ppc = "start"
    /\ RoutesIdle
    /\ ScanIdle
    /\ GridIdle
    /\ CoverageIdle

\* lines 105-114: placed_sensors_info and the status string
Returned(code, x) == <<LpStatus(code), PlacedFrom(1, x)>>

\* lines 50-114: the solver proves an assignment optimal
PlaceOptimal ==
    /\ ppc = "start"
    /\ \E x \in OptimalX :
          /\ xValue' = x
          /\ placement' = Returned(1, x)
    /\ probStatus' = 1
    /\ ppc' = "returned"
    /\ UNCHANGED <<numLocations, numConfigs, covers, maxSensors, covReq, overlap>>
    /\ UNCHANGED notPlaceVars

\* lines 50-114: the solver ends without an optimal assignment; the values
\* it leaves in the variables are unspecified
PlaceNotOptimal ==
    /\ ppc = "start"
    /\ \E code \in FailureCodes : \E x \in SUBSET Pairs :
          /\ probStatus' = code
          /\ xValue' = x
          /\ placement' = Returned(code, x)
    /\ ppc' = "returned"
    /\ UNCHANGED <<numLocations, numConfigs, covers, maxSensors, covReq, overlap>>
    /\ UNCHANGED notPlaceVars

NextPlace ==
    \/ PlaceOptimal
    \/ PlaceNotOptimal

SpecPlace == InitPlace /\ [][NextPlace]_vars

\* --------------------------------------- get_grid_points_in_polygon_km
\* Coordinates are integers relative to (min_lon, min_lat) of
\* polygon.bounds, so the bounding box of the region is
\* [0, maxLon] x [0, maxLat] and the first lattice point is its corner.
PolygonKinds == {"rectangle", "triangle"}

\* lat_step values, and lon_step values of rows where the cosine is positive
LatSteps == {1, 2}
LonSteps == {1, 2}

\* where the point (x, y) lies with respect to the region: the rectangle
\* with corners (0, 0) and (w, h), or the triangle (0, 0), (w, 0), (0, h)
RegionLocate(kind, w, h, x, y) ==
    IF x < 0 \/ y < 0 \/ x > w \/ y > h THEN "exterior"
    ELSE IF kind = "rectangle"
         THEN IF 0 < x /\ x < w /\ 0 < y /\ y < h THEN "interior"
              ELSE "boundary"
         ELSE IF x * h + y * w > w * h THEN "exterior"
              ELSE IF 0 < x /\ 0 < y /\ x * h + y * w < w * h THEN "interior"
                   ELSE "boundary"

\* number of passes of the outer while loop of line 63
RowCount(h, step) == h \div step + 1

\* line 65: lon_step is lat_step / cos(current_lat), at least lat_step, or
\* max_lon - min_lon + 1 where the cosine is not positive
LonStepValues(w, step) == {v \in LonSteps : v >= step} \cup {w + 1}

\* variant: the containment test counts the boundary as inside
GridInputs ==
    /\ polygonKind \in PolygonKinds
    /\ maxLon \in 1..MaxExtent
    /\ maxLat \in 1..MaxExtent
    /\ latStep \in LatSteps
    /\ lonStep \in [1..RowCount(maxLat, latStep) -> LonStepValues(maxLon, latStep)]

\* lines 58-62 and 66 of the first row
InitGrid ==
    /\ GridInputs
    /\ currentLat = 0
    /\ currentLon = 0
    /\ gridPoints = <<>>
    /\ gpc = "scan"
    /\ RoutesIdle
    /\ ScanIdle
    /\ PlaceIdle
    /\ CoverageIdle

\* the point of line 68 and the row it belongs to
CurrentPoint == <<currentLon, currentLat>>
CurrentRow == currentLat \div latStep + 1
PointInside ==
    Contains(RegionLocate(polygonKind, maxLon, maxLat, currentLon, currentLat))

\* lines 67-71: the polygon contains the point
GridEmit ==
    /\ gpc = "scan"
    /\ currentLat <= maxLat
    /\ currentLon <= maxLon
    /\ PointInside
    /\ gridPoints' = Append(gridPoints, CurrentPoint)
    /\ currentLon' = currentLon + lonStep[CurrentRow]
    /\ UNCHANGED <<polygonKind, maxLon, maxLat, latStep, lonStep, currentLat, gpc>>
    /\ UNCHANGED notGridVars

\* lines 67-71: the polygon does not contain the point
GridSkip ==
    /\ gpc = "scan"
    /\ currentLat <= maxLat
    /\ currentLon <= maxLon
    /\ ~PointInside
    /\ currentLon' = currentLon + lonStep[CurrentRow]
    /\ UNCHANGED <<polygonKind, maxLon, maxLat, latStep, lonStep, currentLat,
                   gridPoints, gpc>>
    /\ UNCHANGED notGridVars

\* lines 67, 72, 63-66: the row is finished
GridNextRow ==
    /\ gpc = "scan"
    /\ currentLat <= maxLat
    /\ currentLon > maxLon
    /\ currentLat' = currentLat + latStep
    /\ currentLon' = 0
    /\ UNCHANGED <<polygonKind, maxLon, maxLat, latStep, lonStep, gridPoints, gpc>>
    /\ UNCHANGED notGridVars

\* lines 63, 73: the last row is finished
GridReturn ==
    /\ gpc = "scan"
    /\ currentLat > maxLat
    /\ gpc' = "returned"
    /\ UNCHANGED <<polygonKind, maxLon, maxLat, latStep, lonStep, currentLat,
                   currentLon, gridPoints>>
    /\ UNCHANGED notGridVars

NextGrid ==
    \/ GridEmit
    \/ GridSkip
    \/ GridNextRow
    \/ GridReturn

SpecGrid == InitGrid /\ [][NextGrid]_vars

\* ------------------------------------------------ calculate_coverage_info
\* A ratio is a pair <<numerator, denominator>>; the literal 0.0 is <<0, 1>>.
ZeroRatio == <<0, 1>>

\* line 153: covered_count / len(locations) if locations else 0.0
Estimated(covered, n) == IF n # 0 THEN <<covered, n>> ELSE ZeroRatio

\* variant: unary_union is invoked whatever placed_polygons holds
UnionCallsAlways(k) == {"unary_union"}

\* line 154: unary_union(placed_polygons) if placed_polygons else None
UnionCalls(k) == IF k # 0 THEN {"unary_union"} ELSE {}

\* line 151: any(poly.contains(pt) for poly in placed_polygons)
AnyContains(pt) == \E k \in 1..nPlaced : pt \in inFootprint[k]

CoverageInputs ==
    /\ nPlaced \in 0..MaxPlaced
    /\ nSamples \in 0..MaxSamples
    /\ inFootprint \in [1..nPlaced -> SUBSET (1..nSamples)]
    /\ areaRegion \in 1..MaxArea

\* lines 138-149
InitCoverage ==
    /\ CoverageInputs
    /\ ptIdx = 1
    /\ coveredCount = 0
    /\ geomCalls = {}
    /\ info = "none"
    /\ cpc = "count"
    /\ RoutesIdle
    /\ ScanIdle
    /\ PlaceIdle
    /\ GridIdle

\* lines 150-152: one pass of the loop over the sample grid
CountSample ==
    /\ cpc = "count"
    /\ ptIdx <= nSamples
    /\ coveredCount' = IF AnyContains(ptIdx) THEN coveredCount + 1
                       ELSE coveredCount
    /\ ptIdx' = ptIdx + 1
    /\ UNCHANGED <<nPlaced, nSamples, inFootprint, areaRegion, geomCalls, info, cpc>>
    /\ UNCHANGED notCoverageVars

\* lines 153-163 with an empty placed_polygons: total_coverage_geom is None
\* and area_percent stays 0.0
FinishNoSensors ==
    /\ cpc = "count"
    /\ ptIdx > nSamples
    /\ nPlaced = 0
    /\ geomCalls' = geomCalls \cup UnionCalls(nPlaced)
    /\ info' = [num_sensors |-> nPlaced,
                estimated_coverage_percent |-> Estimated(coveredCount, nSamples),
                actual_coverage_percent |-> ZeroRatio]
    /\ cpc' = "returned"
    /\ UNCHANGED <<nPlaced, nSamples, inFootprint, areaRegion, ptIdx, coveredCount>>
    /\ UNCHANGED notCoverageVars

\* lines 153-163 with placed polygons: the union is intersected with the
\* region, whose area is positive; the geometry library gives the area
FinishWithSensors ==
    /\ cpc = "count"
    /\ ptIdx > nSamples
    /\ nPlaced # 0
    /\ geomCalls' = geomCalls \cup UnionCalls(nPlaced) \cup {"intersection"}
    /\ \E coveredArea \in 0..areaRegion :
          info' = [num_sensors |-> nPlaced,
                   estimated_coverage_percent |-> Estimated(coveredCount, nSamples),
                   actual_coverage_percent |-> <<coveredArea, areaRegion>>]
    /\ cpc' = "returned"
    /\ UNCHANGED <<nPlaced, nSamples, inFootprint, areaRegion, ptIdx, coveredCount>>
    /\ UNCHANGED notCoverageVars

NextCoverage ==
    \/ CountSample
    \/ FinishNoSensors
    \/ FinishWithSensors

SpecCoverage == InitCoverage /\ [][NextCoverage]_vars

\* ------------------------------------------------ claims, SpecRoutes

\* route r of depot d is a closed tour through each point of the cluster once
ClosedTour(d, r) ==
    /\ Len(r) = Len(clusters[d]) + 2
    /\ r[1] = Depot(d)
    /\ r[Len(r)] = Depot(d)
    /\ \A k \in 1..Len(clusters[d]) :
          Cardinality({p \in 2..(Len(r) - 1) : r[p] = ScanPt(clusters[d][k])}) = 1

\* C1: whatever assignment satisfying the degree and MTZ rows the solver
\* returns, the successor walk is defined at every step, takes at most n
\* steps, and the route it yields starts and ends at the depot and holds
\* each scan point of the cluster exactly once.
C1_WalkYieldsClosedTour ==
    /\ \A d \in 1..Len(routes) : ClosedTour(d, routes[d])
    /\ rpc = "walk" =>
          /\ current \in DOMAIN succ
          /\ Len(tour) <= NodeCount(depotIdx)
          /\ \A p, q \in 1..Len(tour) : tour[p] = tour[q] => p = q
    /\ rpc = "returned" => \A d \in 1..Len(result) : ClosedTour(d, result[d])

\* a route through three scan points was returned although some segment of
\* its cluster was not permitted
C1_Witness ==
    /\ rpc = "returned"
    /\ \E d \in 1..Len(result) : Len(result[d]) = 5
    /\ Cardinality(arcs) < 12

\* node k of the cluster being solved has no permitted incoming or no
\* permitted outgoing arc
Unreachable(k) == (\A a \in arcs : a[2] # k) \/ (\A a \in arcs : a[1] # k)

\* C3: a solve that does not end Optimal (a time-out, or an arc set that
\* leaves a node without incoming or outgoing arc) makes the call raise with
\* nothing returned, whatever routes were already built; a returned list
\* has one closed route per depot.
C3_FailureRaisesNothingReturned ==
    /\ status \notin {"none", "Optimal"} => (rpc = "raised" /\ result = "none")
    /\ rpc = "raised" => result = "none"
    /\ (rpc \in {"walk", "raised"} /\ status # "none"
          /\ \E k \in 0..(NodeCount(depotIdx) - 1) : Unreachable(k))
         => (rpc = "raised" /\ status # "Optimal")
    /\ rpc = "returned" =>
          /\ status \in {"none", "Optimal"}
          /\ Len(result) = nDepots
          /\ \A d \in 1..nDepots :
                /\ Len(result[d]) = Len(clusters[d]) + 2
                /\ result[d][1] = Depot(d)
                /\ result[d][Len(result[d])] = Depot(d)

\* the second depot's cluster is infeasible because a node is cut off, and
\* the route already built for the first depot is not returned
C3_Witness ==
    /\ rpc = "raised"
    /\ status = "Infeasible"
    /\ Len(routes) >= 1
    /\ Len(routes[1]) >= 3
    /\ \E k \in 0..(NodeCount(depotIdx) - 1) : Unreachable(k)

\* depot d is at minimum distance from scan point s, and no earlier depot is
NearestFirst(s, d) ==
    /\ \A k \in 1..nDepots : distances[s][d] <= distances[s][k]
    /\ \A k \in 1..(d - 1) : distances[s][k] > distances[s][d]

\* C8: the returned list has one route per depot, in depot order; each scan
\* point is in exactly one route, once, and that route belongs to the first
\* depot at minimum distance; a depot without scan point gets [depot, depot].
C8_NearestDepotPartition ==
    rpc = "returned" =>
        /\ Len(result) = nDepots
        /\ \A d \in 1..nDepots : result[d][1] = Depot(d)
        /\ \A s \in 1..nScan : \A d \in 1..nDepots :
              Cardinality({p \in 1..Len(result[d]) : result[d][p] = ScanPt(s)})
                 = (IF NearestFirst(s, d) THEN 1 ELSE 0)
        /\ \A d \in 1..nDepots :
              (\A s \in 1..nScan : ~NearestFirst(s, d))
                 => result[d] = <<Depot(d), Depot(d)>>

\* a scan point equally far from both depots went to the first, the other
\* depot got the trivial route
C8_Witness ==
    /\ rpc = "returned"
    /\ nDepots = 2
    /\ \E s \in 1..nScan : distances[s][1] = distances[s][2]
    /\ Len(result[1]) >= 4
    /\ result[2] = <<Depot(2), Depot(2)>>

\* every leg of route r is a segment the containment test accepted
LegsPermitted(r) == \A k \in 1..(Len(r) - 1) : {r[k], r[k + 1]} \in segInside

\* C9 as stated: every pair of consecutive points of every returned route
\* is an arc of the permitted arc set.
C9_AllLegsPermitted ==
    rpc = "returned" => \A d \in 1..Len(result) : LegsPermitted(result[d])

\* C9 amended: every pair of consecutive points of a returned route of a
\* depot that has at least one scan point is a permitted arc; the trivial
\* route [depot, depot] is returned with no containment test on it.
C9_NonTrivialLegsPermitted ==
    rpc = "returned" =>
        \A d \in 1..Len(result) :
            IF Len(clusters[d]) > 0
            THEN LegsPermitted(result[d])
            ELSE result[d] = <<Depot(d), Depot(d)>> /\ ~LegsPermitted(result[d])

\* a route through three scan points was returned while two of the six
\* segments of its cluster leave the operational area
C9_Witness ==
    /\ rpc = "returned"
    /\ \E d \in 1..Len(result) : Len(result[d]) = 5
    /\ Cardinality(segInside) = 4

\* ---------------------------------------- claims, SpecScan / SpecScanFair

\* |unc| / L is at or below 1 - c, as rationals
FractionReached(unc, c) == Cardinality(unc) * 100 <= gridSize * (100 - c)

\* no candidate footprint contains a sample of unc
NothingToGain(unc) == \A idx \in 1..gridSize : footprint[idx] \cap unc = {}

\* C5 as stated: on return the uncovered fraction is at or below
\* 1 - coverage_requirement or no footprint contains an uncovered sample,
\* and neither was the case at the loop check before any selection.
C5_ReturnsAtFirstStop ==
    /\ [](spc = "returned" =>
            (FractionReached(uncovered, requirement[callNo])
               \/ NothingToGain(uncovered)))
    /\ [][Len(selected') > Len(selected) =>
            (~FractionReached(uncovered, requirement[callNo])
               /\ ~NothingToGain(uncovered))]_vars

\* C6: every call returns; the division of the loop test is never reached
\* with an empty grid; a selection removes at least one sample from the
\* uncovered set, so a call selects at most L positions.
C6_SelectorTerminates ==
    /\ [](/\ Len(selected) + Cardinality(uncovered) <= gridSize
          /\ (spc = "loop" /\ uncovered # {}) => gridSize > 0)
    /\ [][Len(selected') > Len(selected) =>
            Cardinality(uncovered') < Cardinality(uncovered)]_vars
    /\ <>(spc = "returned" /\ callNo = 2 /\ Len(returned) = 2)

\* a call has returned after selecting every point of a grid of at least
\* three points, one sample removed per iteration
C6_Witness ==
    /\ spc = "returned"
    /\ gridSize >= 3
    /\ Len(selected) = gridSize

\* the candidate footprints of the scenario: grid spacing 20 km, one
\* full-circle config of range 15 km
ScenarioFootprint ==
    [idx \in 1..gridSize |->
        {i \in 1..gridSize : Contains(FanLocate(idx * 20, 15, i * 20))}]

\* the samples inside the union of the footprints of a returned list
SamplesCovered(list) == UNION {footprint[list[k]] : k \in 1..Len(list)}

\* C11 as stated: on the grid of the scenario with a non-empty grid and
\* coverage_requirement = 0.8 the returned list is non-empty and its
\* footprints together contain at least 80% of the grid samples.
C11_ScenarioSelectsAndCovers ==
    (/\ spc = "returned"
     /\ gridSize >= 1
     /\ footprint = ScenarioFootprint
     /\ requirement[callNo] = 80)
    => (/\ selected # <<>>
        /\ Cardinality(SamplesCovered(selected)) * 100 >= 80 * gridSize)

\* number of currently-uncovered samples inside the footprint of candidate j
CoverCountOf(j) == Cardinality(CoverSet(j, uncovered))

\* C12: the candidate appended by an iteration covers the most currently-
\* uncovered samples and no candidate of lower index covers as many; two
\* calls with the same inputs return the same list in the same order.
C12_GreedyFirstMaximum ==
    /\ [][Len(selected') > Len(selected) =>
            LET b == selected'[Len(selected')] IN
                /\ b \in 1..gridSize
                /\ SubSeq(selected', 1, Len(selected)) = selected
                /\ \A j \in 1..gridSize : CoverCountOf(j) <= CoverCountOf(b)
                /\ \A j \in 1..(b - 1) : CoverCountOf(j) < CoverCountOf(b)]_vars
    /\ []((Len(returned) = 2 /\ requirement[1] = requirement[2])
            => returned[1] = returned[2])

\* two calls with the same requirement returned the same list of at least
\* two positions, the first of which won a tie against a later candidate
C12_Witness ==
    /\ Len(returned) = 2
    /\ requirement[1] = requirement[2]
    /\ returned[1] = returned[2]
    /\ Len(returned[1]) >= 2
    /\ \E j \in 1..gridSize :
          /\ j > returned[1][1]
          /\ Cardinality(footprint[j]) = Cardinality(footprint[returned[1][1]])

\* C7: of two calls on the same grid, the one with the lower requirement
\* returns a list no longer than the other.
C7_SizeMonotoneInRequirement ==
    Len(returned) = 2 => Len(returned[1]) <= Len(returned[2])

\* the lower requirement needed strictly fewer positions
C7_Witness ==
    /\ Len(returned) = 2
    /\ requirement[1] < requirement[2]
    /\ 0 < Len(returned[1])
    /\ Len(returned[1]) < Len(returned[2])

\* ------------------------------------------------- claims, SpecPlace

\* samples inside the footprint of at least one returned sensor
CoveredBy(placed) ==
    {i \in Locs : \E k \in 1..Len(placed) : i \in covers[placed[k]]}

\* the returned sensors meet the requirement: coverage >= requirement * L
MeetsRequirement(placed) ==
    100 * Cardinality(CoveredBy(placed)) >= covReq * numLocations

\* C2 as stated: a returned placement never has more than max_sensors
\* entries, and under status Optimal it covers coverage_requirement * L.
C2_CapAlwaysCoverageWhenOptimal ==
    ppc = "returned" =>
        /\ Len(placement[2]) <= maxSensors
        /\ placement[1] = "Optimal" => MeetsRequirement(placement[2])

\* C2 amended: when the returned status is Optimal the placement has at
\* most max_sensors entries and covers at least coverage_requirement * L
\* samples; under any other status the placement is whatever the solver
\* left in the variables and may exceed max_sensors.
C2_OptimalRespectsCapAndCoverage ==
    (ppc = "returned" /\ placement[1] = "Optimal") =>
        /\ Len(placement[2]) <= maxSensors
        /\ MeetsRequirement(placement[2])

\* an Optimal placement that uses the whole allowance of two sensors to
\* cover both samples
C2_Witness ==
    /\ ppc = "returned"
    /\ placement[1] = "Optimal"
    /\ maxSensors = 2
    /\ Len(placement[2]) = 2
    /\ covReq = 100
    /\ Cardinality(CoveredBy(placement[2])) = 2

\* C4 as stated: a solve that is not optimal makes the call raise.
C4_NotOptimalRaises ==
    (ppc # "start" /\ probStatus # 1) => ppc = "raised"

\* C4 amended: a solve that is not optimal does not raise; the call returns
\* the raw solver status, which is then not "Optimal", with the placement
\* read from the solver's variables; a placement that breaks the cap or the
\* coverage requirement is only ever returned with a status not "Optimal".
C4_NotOptimalReturnsRawStatus ==
    /\ ppc \in {"start", "returned"}
    /\ ppc = "returned" =>
          /\ probStatus = 0 => placement[1] = "Not Solved"
          /\ probStatus = 0 - 1 => placement[1] = "Infeasible"
          /\ probStatus = 1 => placement[1] = "Optimal"
          /\ (Len(placement[2]) > maxSensors \/ ~MeetsRequirement(placement[2]))
                => placement[1] # "Optimal"

\* an infeasible model returned normally, with more sensors than allowed
C4_Witness ==
    /\ ppc = "returned"
    /\ placement[1] = "Infeasible"
    /\ Len(placement[2]) > maxSensors

\* C10 as stated: with max_sensors = 0 the status is not Optimal whenever
\* coverage_requirement > 0, and the placement is empty when it is 0.
C10_ZeroSensors ==
    (ppc = "returned" /\ maxSensors = 0) =>
        /\ covReq > 0 => placement[1] # "Optimal"
        /\ covReq = 0 => placement[2] = <<>>

\* C10 amended: with max_sensors = 0 and a non-empty grid the status is not
\* Optimal whenever coverage_requirement > 0 (on an empty grid the
\* requirement is 0 samples and the status can be Optimal); whenever the
\* status is Optimal, as for coverage_requirement = 0 unless the solver
\* runs out of time, the placement is empty.
C10_ZeroSensorsNonEmptyGrid ==
    (ppc = "returned" /\ maxSensors = 0) =>
        /\ (covReq > 0 /\ numLocations > 0) => placement[1] # "Optimal"
        /\ placement[1] = "Optimal" => placement[2] = <<>>

\* no sensor allowed, a requirement above zero on a grid where footprints
\* could cover it: the status is Infeasible
C10_Witness ==
    /\ ppc = "returned"
    /\ maxSensors = 0
    /\ covReq > 0
    /\ numLocations = 2
    /\ \E lj \in Pairs : covers[lj] = Locs
    /\ placement[1] = "Infeasible"

\* --------------------------------------------------- claims, SpecGrid

\* the lattice of the two while loops
LatticePoints ==
    {<<m * lonStep[r + 1], r * latStep>> :
        r \in 0..(RowCount(maxLat, latStep) - 1), m \in 0..maxLon} \cap
    ((0..maxLon) \X (0..maxLat))

\* p comes before q in row-major order; points are <<lon, lat>>
RowMajorBefore(p, q) == p[2] < q[2] \/ (p[2] = q[2] /\ p[1] < q[1])

RowMajorOrdered(list) ==
    \A i, j \in 1..Len(list) : i < j => RowMajorBefore(list[i], list[j])

Emitted == {gridPoints[k] : k \in 1..Len(gridPoints)}

\* C13 as stated: the returned list is in row-major order and holds exactly
\* the lattice points in the interior or on the boundary of the region.
C13_BoundaryInclusiveRowMajor ==
    gpc = "returned" =>
        /\ RowMajorOrdered(gridPoints)
        /\ Emitted = {p \in LatticePoints :
                         RegionLocate(polygonKind, maxLon, maxLat, p[1], p[2])
                             # "exterior"}

\* ----------------------------------------------- claims, SpecCoverage

\* the value of a ratio is zero and its division is defined
IsZero(ratio) == ratio[1] = 0 /\ ratio[2] # 0

\* C14: with zero placed sensors no sample is ever counted as covered,
\* neither the union nor the intersection is invoked, and the call returns
\* zero for both coverages, whatever the size of the sample grid.
C14_NoSensorsZeroCoverage ==
    nPlaced = 0 =>
        /\ coveredCount = 0
        /\ geomCalls = {}
        /\ cpc = "returned" =>
              /\ info.num_sensors = 0
              /\ IsZero(info.estimated_coverage_percent)
              /\ IsZero(info.actual_coverage_percent)

\* a call with no sensors and an empty sample grid has returned
C14_Witness ==
    /\ cpc = "returned"
    /\ nPlaced = 0
    /\ nSamples = 0
    /\ info.estimated_coverage_percent = ZeroRatio

=============================================================================
